---- MODULE Spec2Model ----
(***************************************************************************)
(* Model of package mapenv (decode.go, DecodeError): Decode walks the      *)
(* fields of a struct reached through a chain of pointers, resolves each   *)
(* field's candidate keys, looks them up in the process environment and    *)
(* converts the text found into the field's type.                          *)
(*                                                                         *)
(* Texts (Go strings) are sequences of one-character strings, so that      *)
(* strings.Split and the strconv parsers are computed character by         *)
(* character.  Typed values are tagged records [k |-> kind, ...].          *)
(***************************************************************************)
EXTENDS Integers, Sequences, FiniteSets, TLC

(***************************************************************************)
(* Bounds of the model.                                                    *)
(***************************************************************************)
\* deepest chain of pointers in the static type of Decode's argument
MaxPtrDepth == 2
\* largest number of variables set in the environment
MaxEnvVars == 2

(***************************************************************************)
(* Texts.                                                                  *)
(***************************************************************************)
Digits == <<"0", "1", "2", "3", "4", "5", "6", "7", "8", "9">>

IsDigit(c) == \E n \in 1..Len(Digits) : Digits[n] = c

DigitVal(c) == (CHOOSE n \in 1..Len(Digits) : Digits[n] = c) - 1

AllDigits(ds) == \A n \in 1..Len(ds) : IsDigit(ds[n])

Drop(txt, n) == SubSeq(txt, n + 1, Len(txt))

RECURSIVE StripZeros(_)
StripZeros(ds) ==
    IF Len(ds) > 1 /\ ds[1] = "0" THEN StripZeros(Tail(ds)) ELSE ds

RECURSIVE LexLeq(_, _)
\* a <= b for digit texts of equal length
LexLeq(a, b) ==
    IF a = <<>> THEN TRUE
    ELSE IF DigitVal(a[1]) < DigitVal(b[1]) THEN TRUE
    ELSE IF DigitVal(a[1]) > DigitVal(b[1]) THEN FALSE
    ELSE LexLeq(Tail(a), Tail(b))

\* numeric a <= b for digit texts of any length
DecLeq(a, b) ==
    LET x == StripZeros(a)
        y == StripZeros(b)
    IN  IF Len(x) # Len(y) THEN Len(x) < Len(y) ELSE LexLeq(x, y)

RECURSIVE DecVal(_, _)
\* the number written by the digit text ds, by Horner's rule from acc
DecVal(ds, acc) ==
    IF ds = <<>> THEN acc ELSE DecVal(Tail(ds), acc * 10 + DigitVal(ds[1]))

RECURSIVE Pow2(_)
Pow2(n) == IF n = 0 THEN 1 ELSE 2 * Pow2(n - 1)

\* 1<<63 - 1, 1<<63 and 1<<64 - 1 as digit texts
MaxInt64Text ==
    <<"9", "2", "2", "3", "3", "7", "2", "0", "3", "6",
      "8", "5", "4", "7", "7", "5", "8", "0", "7">>
MinInt64Text ==
    <<"9", "2", "2", "3", "3", "7", "2", "0", "3", "6",
      "8", "5", "4", "7", "7", "5", "8", "0", "8">>
MaxUint64Text ==
    <<"1", "8", "4", "4", "6", "7", "4", "4", "0", "7",
      "3", "7", "0", "9", "5", "5", "1", "6", "1", "5">>

(***************************************************************************)
(* Errors of the standard library, as the values decodeValue returns.      *)
(***************************************************************************)
Nil == "nil"
ErrParseBool == "strconv.ParseBool: invalid syntax"
ErrIntSyntax == "strconv.ParseInt: invalid syntax"
ErrIntRange == "strconv.ParseInt: value out of range"
ErrUintSyntax == "strconv.ParseUint: invalid syntax"
ErrUintRange == "strconv.ParseUint: value out of range"
ErrFloatSyntax == "strconv.ParseFloat: invalid syntax"
ErrTimeParse == "time.ParseError"
ErrJSON == "json: cannot unmarshal into time.Time"
ErrKindInvalid == "unsupported field kind: invalid"
ErrKindInterface == "unsupported field kind: interface"

(***************************************************************************)
(* strconv                                                                 *)
(***************************************************************************)
\* strconv.ParseBool
ParseBool(txt) ==
    IF txt \in {<<"1">>, <<"t">>, <<"T">>, <<"t", "r", "u", "e">>,
                <<"T", "R", "U", "E">>, <<"T", "r", "u", "e">>}
    THEN [err |-> Nil, b |-> TRUE]
    ELSE IF txt \in {<<"0">>, <<"f">>, <<"F">>, <<"f", "a", "l", "s", "e">>,
                     <<"F", "A", "L", "S", "E">>, <<"F", "a", "l", "s", "e">>}
    THEN [err |-> Nil, b |-> FALSE]
    ELSE [err |-> ErrParseBool, b |-> FALSE]

\* strconv.ParseUint(txt, 10, 64): digits only, at most 1<<64 - 1
ParseUint(txt) ==
    IF txt = <<>> \/ ~AllDigits(txt) THEN [err |-> ErrUintSyntax, n |-> 0]
    ELSE IF ~DecLeq(txt, MaxUint64Text) THEN [err |-> ErrUintRange, n |-> 0]
    ELSE [err |-> Nil, n |-> DecVal(txt, 0)]

\* strconv.ParseInt(txt, 10, 64): an optional sign, digits, within 64 bits
ParseInt(txt) ==
    LET signed == txt # <<>> /\ txt[1] \in {"+", "-"}
        neg == txt # <<>> /\ txt[1] = "-"
        ds == IF signed THEN Tail(txt) ELSE txt
    IN  IF ds = <<>> \/ ~AllDigits(ds) THEN [err |-> ErrIntSyntax, n |-> 0]
        ELSE IF ~neg /\ ~DecLeq(ds, MaxInt64Text) THEN [err |-> ErrIntRange, n |-> 0]
        ELSE IF neg /\ ~DecLeq(ds, MinInt64Text) THEN [err |-> ErrIntRange, n |-> 0]
        ELSE [err |-> Nil, n |-> IF neg THEN - DecVal(ds, 0) ELSE DecVal(ds, 0)]

\* The position of the first "." of txt, or Len(txt) + 1
DotPos(txt) ==
    IF \E n \in 1..Len(txt) : txt[n] = "."
    THEN CHOOSE n \in 1..Len(txt) :
            txt[n] = "." /\ \A m \in 1..(n - 1) : txt[m] # "."
    ELSE Len(txt) + 1

\* strconv.ParseFloat(txt, 64) on plain decimal texts: an optional sign, digits
\* and an optional fraction.  The float is kept as sign, integer part and the
\* fraction's digits (exponents, hexadecimal floats, inf and nan are not among
\* the model's texts).
ParseFloat(txt) ==
    LET signed == txt # <<>> /\ txt[1] \in {"+", "-"}
        neg == txt # <<>> /\ txt[1] = "-"
        body == IF signed THEN Tail(txt) ELSE txt
        dot == DotPos(body)
        ip == SubSeq(body, 1, dot - 1)
        fp == Drop(body, dot)
    IN  IF body = <<>> \/ ~AllDigits(ip) \/ ~AllDigits(fp) \/ Len(ip) + Len(fp) = 0
        THEN [err |-> ErrFloatSyntax, neg |-> FALSE, int |-> <<>>, frac |-> <<>>]
        ELSE [err |-> Nil, neg |-> neg, int |-> ip, frac |-> fp]

(***************************************************************************)
(* package time and encoding/json, for time.Time                           *)
(***************************************************************************)
\* time.Time{}
ZeroTime == [k |-> "time", zero |-> TRUE, sec |-> 0, nsec |-> 0]

TimeAt(sec, nsec) == [k |-> "time", zero |-> FALSE, sec |-> sec, nsec |-> nsec]

Num2(txt, n) == DecVal(SubSeq(txt, n, n + 1), 0)

IsLeap(y) == y % 4 = 0 /\ (y % 100 # 0 \/ y % 400 = 0)

DaysIn(y, m) ==
    IF m = 2 THEN (IF IsLeap(y) THEN 29 ELSE 28)
    ELSE IF m \in {4, 6, 9, 11} THEN 30 ELSE 31

\* days from 1970-01-01 to the civil date y-m-d
DaysFromCivil(y, m, d) ==
    LET yy == IF m <= 2 THEN y - 1 ELSE y
        era == yy \div 400
        yoe == yy - era * 400
        mp == IF m > 2 THEN m - 3 ELSE m + 9
        doy == (153 * mp + 2) \div 5 + d - 1
        doe == yoe * 365 + yoe \div 4 - yoe \div 100 + doy
    IN  era * 146097 + doe - 719468

\* time.Parse(time.RFC3339Nano, txt) on texts of the shape
\* YYYY-MM-DDTHH:MM:SSZ (fractions of a second and numeric zone offsets are
\* not among the model's texts)
TimeParse(txt) ==
    LET shape == /\ Len(txt) = 20
                 /\ \A n \in {1, 2, 3, 4, 6, 7, 9, 10, 12, 13, 15, 16, 18, 19} :
                        IsDigit(txt[n])
                 /\ txt[5] = "-" /\ txt[8] = "-" /\ txt[11] = "T"
                 /\ txt[14] = ":" /\ txt[17] = ":" /\ txt[20] = "Z"
        y == DecVal(SubSeq(txt, 1, 4), 0)
        m == Num2(txt, 6)
        d == Num2(txt, 9)
        hh == Num2(txt, 12)
        mm == Num2(txt, 15)
        ss == Num2(txt, 18)
        inRange == /\ m \in 1..12
                   /\ d \in 1..DaysIn(y, m)
                   /\ hh < 24 /\ mm < 60 /\ ss < 60
    IN  IF shape /\ inRange
        THEN [err |-> Nil,
              t |-> TimeAt(DaysFromCivil(y, m, d) * 86400 + hh * 3600 + mm * 60 + ss, 0)]
        ELSE [err |-> ErrTimeParse, t |-> ZeroTime]

\* sec, dec := math.Modf(f); time.Unix(int64(sec), int64(dec*(1e9))), for a
\* float whose fraction is exact in binary
UnixFromFloat(f) ==
    LET sec == DecVal(f.int, 0)
        pad == f.frac \o <<"0", "0", "0", "0", "0", "0", "0", "0", "0">>
        nsec == DecVal(SubSeq(pad, 1, 9), 0)
    IN  IF ~f.neg THEN TimeAt(sec, nsec)
        ELSE IF nsec = 0 THEN TimeAt(- sec, 0)
        ELSE TimeAt(- sec - 1, 1000000000 - nsec)

\* json.Unmarshal(txt, &t) for t of type time.Time: null leaves t alone, a JSON
\* string is parsed as RFC 3339, anything else is an error
JSONUnmarshalTime(txt, t) ==
    IF txt = <<"n", "u", "l", "l">> THEN [err |-> Nil, t |-> t]
    ELSE IF Len(txt) >= 2 /\ txt[1] = "\"" /\ txt[Len(txt)] = "\""
    THEN LET r == TimeParse(SubSeq(txt, 2, Len(txt) - 1))
         IN  IF r.err = Nil THEN r ELSE [err |-> ErrJSON, t |-> t]
    ELSE [err |-> ErrJSON, t |-> t]

\* The error parseTime returns when all three attempts have failed: its
\* "return time.Time{}, err" names the err of time.Parse, the attempts at
\* ParseFloat and json.Unmarshal each having declared an err of their own
\* inside their if statement.
parseTimeErr(errParse, errFloat, errJSON) == errParse

parseTime(txt) ==
    LET r1 == TimeParse(txt)
        r2 == ParseFloat(txt)
        r3 == JSONUnmarshalTime(txt, r1.t)
    IN  IF r1.err = Nil THEN [err |-> Nil, t |-> r1.t]
        ELSE IF r2.err = Nil THEN [err |-> Nil, t |-> UnixFromFloat(r2)]
        ELSE IF r3.err = Nil THEN [err |-> Nil, t |-> r3.t]
        ELSE [err |-> parseTimeErr(r1.err, r2.err, r3.err), t |-> ZeroTime]

(***************************************************************************)
(* Types (reflect.Type) and values (reflect.Value).                        *)
(***************************************************************************)
IntKinds == {"Int8", "Int16", "Int64"}
UintKinds == {"Uint8", "Uint16"}

\* the width in bits of an integer kind
Bits(kind) ==
    CASE kind \in {"Int8", "Uint8"} -> 8
      [] kind \in {"Int16", "Uint16"} -> 16
      [] kind = "Int64" -> 64

Prim(kind) == [Kind |-> kind]
PtrTo(typ) == [Kind |-> "Ptr", Elem |-> typ]
TimeType == [Kind |-> "Struct", Name |-> "time.Time"]
InvalidType == [Kind |-> "Invalid"]

RECURSIVE PtrChain(_, _)
\* typ under n levels of pointer
PtrChain(n, typ) == IF n = 0 THEN typ ELSE PtrTo(PtrChain(n - 1, typ))

None == [k |-> "none"]
NilPtr == [k |-> "ptr", nil |-> TRUE, elem |-> None]
PtrVal(x) == [k |-> "ptr", nil |-> FALSE, elem |-> x]

RECURSIVE Zero(_)
\* the zero value of a type, as reflect.New(typ).Elem() holds it
Zero(typ) ==
    CASE typ.Kind = "String" -> [k |-> "string", v |-> <<>>]
      [] typ.Kind = "Bool" -> [k |-> "bool", v |-> FALSE]
      [] typ.Kind \in IntKinds -> [k |-> "int", v |-> 0]
      [] typ.Kind \in UintKinds -> [k |-> "uint", v |-> 0]
      [] typ.Kind = "Ptr" -> NilPtr
      [] typ.Kind = "Chan" -> [k |-> "chan", nil |-> TRUE]
      [] typ.Kind = "Interface" -> [k |-> "iface", nil |-> TRUE]
      [] typ = TimeType -> ZeroTime
      [] typ.Kind = "Struct" /\ typ # TimeType ->
            [k |-> "struct",
             f |-> [n \in 1..Len(typ.Fields) |-> Zero(typ.Fields[n].Type)]]

\* reflect.Value.SetInt / SetUint: the 64-bit value is stored in the field's
\* width, keeping its low bits
SetInt(kind, n) ==
    IF Bits(kind) = 64 THEN [k |-> "int", v |-> n]
    ELSE LET m == Pow2(Bits(kind))
         IN  [k |-> "int", v |-> ((n + m \div 2) % m) - m \div 2]

SetUint(kind, n) == [k |-> "uint", v |-> n % Pow2(Bits(kind))]

\* A reflect.Value: its type and what it holds
Value(typ, val) == [typ |-> typ, val |-> val]

\* v.Addr(): a pointer to v, never nil
Addr(v) == Value(PtrTo(v.typ), PtrVal(v.val))

IsNil(v) == v.val.nil

\* v.Elem() of a pointer: the zero Value, of kind Invalid, when v is nil
Elem(v) ==
    IF IsNil(v) THEN Value(InvalidType, None) ELSE Value(v.typ.Elem, v.val.elem)

\* v after a Set... through v.Elem()
WithElem(v, x) == Value(v.typ, PtrVal(x))

\* reflect.New(typ)
New(typ) == Value(PtrTo(typ), PtrVal(Zero(typ)))

ErrUnsupported(kind) ==
    CASE kind = "Invalid" -> ErrKindInvalid
      [] kind = "Interface" -> ErrKindInterface
      [] OTHER -> "unsupported field kind"

\* case reflect.Ptr of decodeValue: "if v.IsNil() { v.Set(reflect.New(...)) }"
\* asks v, the pointer decodeValue was handed, not the pointer v.Elem() it is
\* about to descend into
ptrPrepare(v) == IF IsNil(v) THEN New(v.typ.Elem) ELSE v

RECURSIVE decodeValue(_, _)
\* decodeValue(s, v): the error returned, and v with what was written through
\* it.  The kinds of the model's fields are covered: Float, Complex, Map, Array,
\* Slice and structs other than time.Time are in no record type of the model.
decodeValue(txt, v) ==
    LET e == Elem(v)
        kind == e.typ.Kind
        done(x) == [err |-> Nil, v |-> WithElem(v, x)]
        fail(er) == [err |-> er, v |-> v]
    IN  CASE kind = "String" -> done([k |-> "string", v |-> txt])
          [] kind = "Bool" ->
                LET r == ParseBool(txt)
                IN  IF r.err # Nil THEN fail(r.err) ELSE done([k |-> "bool", v |-> r.b])
          [] kind \in IntKinds ->
                LET r == ParseInt(txt)
                IN  IF r.err # Nil THEN fail(r.err) ELSE done(SetInt(kind, r.n))
          [] kind \in UintKinds ->
                LET r == ParseUint(txt)
                IN  IF r.err # Nil THEN fail(r.err) ELSE done(SetUint(kind, r.n))
          [] kind = "Struct" /\ e.typ = TimeType ->
                LET r == parseTime(txt)
                IN  IF r.err # Nil THEN fail(r.err) ELSE done(r.t)
          [] kind = "Ptr" ->
                LET v1 == ptrPrepare(v)
                    r == decodeValue(txt, Elem(v1))
                IN  [err |-> r.err, v |-> WithElem(v1, r.v.val)]
          [] kind \in {"Chan", "Func"} -> [err |-> Nil, v |-> v]
          [] OTHER -> fail(ErrUnsupported(kind))

(***************************************************************************)
(* Struct fields, their tags and their candidate keys.                     *)
(***************************************************************************)
mapEnvTagName == "mpe"

Field(name, pkgPath, mpe, json, typ) ==
    [Name |-> name, PkgPath |-> pkgPath,
     Tag |-> [mpe |-> mpe, json |-> json], Type |-> typ]

\* StructTag.Get
TagGet(tag, name) == tag[name]

HasComma(txt) == \E n \in 1..Len(txt) : txt[n] = ","

CommaPos(txt) ==
    CHOOSE n \in 1..Len(txt) : txt[n] = "," /\ \A m \in 1..(n - 1) : txt[m] # ","

RECURSIVE Split(_)
\* strings.Split(txt, ",")
Split(txt) ==
    IF ~HasComma(txt) THEN <<txt>>
    ELSE <<SubSeq(txt, 1, CommaPos(txt) - 1)>> \o Split(Drop(txt, CommaPos(txt)))

NonEmpty(txt) == Len(txt) > 0

\* getFieldTags, were the sources merged instead of the first one winning
getFieldTagsMerged(f) ==
    LET tags == TagGet(f.Tag, mapEnvTagName)
        res1 == IF Len(tags) > 0 THEN SelectSeq(Split(tags), NonEmpty) ELSE <<>>
        jtags == TagGet(f.Tag, "json")
        jsonTags == Split(jtags)
        res2 == IF Len(jtags) > 0 /\ Len(jsonTags) > 0 /\ Len(jsonTags[1]) > 0
                THEN <<jsonTags[1]>>
                ELSE <<>>
    IN  res1 \o res2 \o <<f.Name>>

\* getFieldTags: the mpe tag's non-empty entries, else the json tag's first
\* segment, else the field's name
getFieldTags(f) ==
    LET tags == TagGet(f.Tag, mapEnvTagName)
        res1 == IF Len(tags) > 0 THEN SelectSeq(Split(tags), NonEmpty) ELSE <<>>
        jtags == TagGet(f.Tag, "json")
        jsonTags == Split(jtags)
        res2 == IF Len(jtags) > 0 /\ Len(jsonTags) > 0 /\ Len(jsonTags[1]) > 0
                THEN <<jsonTags[1]>>
                ELSE <<>>
    IN  IF Len(res1) > 0 THEN res1
        ELSE IF Len(res2) > 0 THEN res2
        ELSE <<f.Name>>

(***************************************************************************)
(* DecodeError                                                             *)
(***************************************************************************)
newDecodeError(description, field, err) ==
    [description |-> description, field |-> field, err |-> err]

\* the descriptions Decode formats: a message and what fmt.Sprintf puts in it
Description(msg, arg) == [msg |-> msg, arg |-> arg]

MsgMustPtr == "must decode to pointer"
MsgCannotDecode == "cannot decode into value of type: %s"
MsgUnableField == "unable to decode value in field '%s'"

\* reflect.Type.String()
TypeString(typ) ==
    CASE typ.Kind = "Int64" -> <<"i", "n", "t", "6", "4">>
      [] typ.Kind = "Struct" -> <<typ.Name>>
      [] OTHER -> <<typ.Kind>>

NoError == newDecodeError(Description("", <<>>), <<>>, Nil)

Running == [outcome |-> "running", derr |-> NoError]
Success == [outcome |-> "ok", derr |-> NoError]
Failure(e) == [outcome |-> "error", derr |-> e]
\* a run-time panic of package reflect: no value is returned
Panic == [outcome |-> "panic", derr |-> NoError]

(***************************************************************************)
(* The inputs of the model: record types, arguments and environments.      *)
(***************************************************************************)
KA == <<"A">>
KB == <<"B">>
KX == <<"X">>
KT == <<"T">>
Keys == {KA, KB, KX, KT}

\* struct { N int8 `mpe:"A,,B"`; b string `mpe:"A"`; S string `json:"B,o"`; X int64 }
Basic ==
    [Kind |-> "Struct", Name |-> "Basic",
     Fields |-> <<Field(<<"N">>, <<>>, <<"A", ",", ",", "B">>, <<>>, Prim("Int8")),
                  Field(<<"b">>, <<"m">>, <<"A">>, <<>>, Prim("String")),
                  Field(<<"S">>, <<>>, <<>>, <<"B", ",", "o">>, Prim("String")),
                  Field(<<"X">>, <<>>, <<>>, <<>>, Prim("Int64"))>>]

\* struct { M int16 `mpe:"A" json:"B"`; Q bool `mpe:"," json:"B"`;
\*          X string `json:",o"`; U uint8 `mpe:"A"` }
Tagged ==
    [Kind |-> "Struct", Name |-> "Tagged",
     Fields |-> <<Field(<<"M">>, <<>>, <<"A">>, <<"B">>, Prim("Int16")),
                  Field(<<"Q">>, <<>>, <<",">>, <<"B">>, Prim("Bool")),
                  Field(<<"X">>, <<>>, <<>>, <<",", "o">>, Prim("String")),
                  Field(<<"U">>, <<>>, <<"A">>, <<>>, Prim("Uint8"))>>]

\* struct { W time.Time `mpe:"T"`; C chan int `mpe:"B"`; P *int64 `mpe:"A"`;
\*          I interface{} `mpe:"X"` }
Rich ==
    [Kind |-> "Struct", Name |-> "Rich",
     Fields |-> <<Field(<<"W">>, <<>>, <<"T">>, <<>>, TimeType),
                  Field(<<"C">>, <<>>, <<"B">>, <<>>, Prim("Chan")),
                  Field(<<"P">>, <<>>, <<"A">>, <<>>, PtrTo(Prim("Int64"))),
                  Field(<<"I">>, <<>>, <<"X">>, <<>>, Prim("Interface"))>>]

RecordTypes == {Basic, Tagged, Rich}

\* what the chain of pointers of an argument may end in
TerminalTypes == RecordTypes \cup {Prim("Int64")}

\* the static types of Decode's argument; InvalidType is that of an untyped nil
ArgTypes ==
    {InvalidType} \cup {PtrChain(d, tt) : d \in 0..MaxPtrDepth, tt \in TerminalTypes}

RECURSIVE Depth(_)
Depth(typ) == IF typ.Kind = "Ptr" THEN 1 + Depth(typ.Elem) ELSE 0

RECURSIVE Terminal(_)
Terminal(typ) == IF typ.Kind = "Ptr" THEN Terminal(typ.Elem) ELSE typ

RECURSIVE Dirty(_)
\* a value of the type that differs from its zero value in every part
Dirty(typ) ==
    CASE typ.Kind = "String" -> [k |-> "string", v |-> <<"z">>]
      [] typ.Kind = "Bool" -> [k |-> "bool", v |-> TRUE]
      [] typ.Kind \in IntKinds -> [k |-> "int", v |-> 1]
      [] typ.Kind \in UintKinds -> [k |-> "uint", v |-> 1]
      [] typ.Kind = "Ptr" -> PtrVal(Dirty(typ.Elem))
      [] typ.Kind = "Chan" -> [k |-> "chan", nil |-> FALSE]
      [] typ.Kind = "Interface" -> [k |-> "iface", nil |-> FALSE]
      [] typ = TimeType -> TimeAt(1, 0)
      [] typ.Kind = "Struct" /\ typ # TimeType ->
            [k |-> "struct",
             f |-> [n \in 1..Len(typ.Fields) |-> Dirty(typ.Fields[n].Type)]]
      [] OTHER -> None

TxtRFC3339 ==
    <<"2", "0", "2", "3", "-", "0", "1", "-", "1", "5", "T",
      "1", "0", ":", "0", "0", ":", "0", "0", "Z">>
TxtUnix == <<"1", "6", "7", "3", "7", "7", "6", "8", "0", "0">>
TxtJSONTime == <<"\"">> \o TxtRFC3339 \o <<"\"">>
TxtNope == <<"n", "o", "p", "e">>
TxtNull == <<"n", "u", "l", "l">>
TxtHuge == MinInt64Text

\* the values a variable of the environment may hold
ValuesFor(key) ==
    CASE key = KA -> {<<>>, <<"4", "2">>, <<"3", "0", "0">>, <<"a", "b", "c">>}
      [] key = KB -> {<<>>, <<"7">>, <<"-", "1", "2", "9">>, <<"t", "r", "u", "e">>}
      [] key = KX -> {<<>>, <<"7", "0", "0", "0", "0">>, TxtHuge}
      [] key = KT -> {<<>>, TxtRFC3339, TxtUnix, TxtJSONTime, TxtNope, TxtNull}

\* the environments: the variables that are set, and the value of each
Envs ==
    UNION {{e \in [D -> UNION {ValuesFor(key) : key \in D}] :
                \A key \in D : e[key] \in ValuesFor(key)} :
           D \in {D \in SUBSET Keys : Cardinality(D) <= MaxEnvVars}}

\* os.LookupEnv
LookupEnv(e, key) ==
    IF key \in DOMAIN e THEN [s |-> e[key], ok |-> TRUE]
    ELSE [s |-> <<>>, ok |-> FALSE]

\* os.Unsetenv and os.Setenv, called by the program around Decode
Unsetenv(e, key) == [x \in DOMAIN e \ {key} |-> e[x]]
Setenv(e, key, txt) == [x \in DOMAIN e \cup {key} |-> IF x = key THEN txt ELSE e[x]]

(***************************************************************************)
(* The state: the caller's memory, the environment, and the locals of the  *)
(* running call of Decode.                                                 *)
(***************************************************************************)
VARIABLES
    argType,    \* reflect.TypeOf(v): the static type of Decode's argument
    env,        \* the process environment
    alloc,      \* how many pointers of the argument's chain, from the outermost, are not nil
    term,       \* the value the chain ends in, None while a pointer of the chain is nil
    pre,        \* alloc and term when Decode was called
    pc,         \* where the call is
    t,          \* Decode's t
    lvl,        \* Decode's val: the pointer of the chain val stands for, 1 the argument itself
    newVal,     \* what Decode's newVal points to
    i,          \* the index of the field loop, from 1
    fieldTags,  \* the candidate keys of field i
    j,          \* the index of the probe loop, from 1
    s,          \* Decode's s
    tag,        \* Decode's tag
    ok,         \* Decode's ok
    probed,     \* the calls of os.LookupEnv made so far: field and key
    result,     \* what the call returned
    call,       \* 1 for the first call, 2 for the call made after one variable changed
    prev,       \* the environment, the result and the memory of the first call
    diffKey     \* the variable changed between the two calls

vars ==
    <<argType, env, alloc, term, pre, pc, t, lvl, newVal, i, fieldTags, j, s, tag,
      ok, probed, result, call, prev, diffKey>>

mem == <<alloc, term>>
fieldLocals == <<fieldTags, j, s, tag, ok>>

NoPrev == [env |-> <<>>, result |-> Running, alloc |-> 0, term |-> None]

Init ==
    /\ argType \in ArgTypes
    /\ env \in Envs
    /\ alloc \in 0..Depth(argType)
    /\ term \in IF argType = InvalidType \/ alloc < Depth(argType)
                THEN {None}
                ELSE {Zero(Terminal(argType)), Dirty(Terminal(argType))}
    /\ pre = [alloc |-> alloc, term |-> term]
    /\ pc = "entry"
    /\ t = argType
    /\ lvl = 1
    /\ newVal = None
    /\ i = 0
    /\ fieldTags = <<>>
    /\ j = 0
    /\ s = <<>>
    /\ tag = <<>>
    /\ ok = FALSE
    /\ probed = <<>>
    /\ result = Running
    /\ call = 1
    /\ prev = NoPrev
    /\ diffKey = <<>>

\* return from Decode
Return(res) ==
    /\ pc' = "done"
    /\ result' = res

\* Decode, lines 21-26: v must be a pointer
DecodeEntry ==
    /\ pc = "entry"
    /\ IF argType.Kind # "Ptr"
       THEN Return(Failure(newDecodeError(Description(MsgMustPtr, <<>>), <<>>, Nil)))
       ELSE pc' = "deref" /\ UNCHANGED result
    /\ UNCHANGED <<argType, env, mem, pre, t, lvl, newVal, i, fieldLocals, probed,
                   call, prev, diffKey>>

\* val.IsNil(), for the pointer of the chain val stands for
ValIsNil == alloc < lvl

\* val.CanSet(): reflect.ValueOf(v) is not addressable, val.Elem() of a pointer is
ValCanSet == lvl > 1

\* Decode, lines 28-36: one turn of the loop that follows the pointers
Deref ==
    /\ pc = "deref"
    /\ t.Kind = "Ptr"
    /\ t' = t.Elem
    /\ IF ValIsNil /\ ~ValCanSet
       THEN \* val.Set panics: reflect.Value.Set using unaddressable value
            /\ Return(Panic)
            /\ UNCHANGED <<mem, lvl>>
       ELSE /\ IF ValIsNil
               THEN /\ alloc' = lvl
                    /\ term' = IF t.Elem.Kind = "Ptr" THEN None ELSE Zero(t.Elem)
               ELSE UNCHANGED mem
            /\ lvl' = lvl + 1
            /\ UNCHANGED <<pc, result>>
    /\ UNCHANGED <<argType, env, pre, newVal, i, fieldLocals, probed, call, prev, diffKey>>

\* Staged, were the fields decoded into the destination's record in place
StagedInPlace(typ) == term

\* newVal := reflect.New(t)
Staged(typ) == Zero(typ)

\* Decode, lines 38-42: the chain must end in a struct; newVal is allocated
CheckStruct ==
    /\ pc = "deref"
    /\ t.Kind # "Ptr"
    /\ IF t.Kind # "Struct"
       THEN /\ Return(Failure(newDecodeError(
                        Description(MsgCannotDecode, TypeString(t)), <<>>, Nil)))
            /\ UNCHANGED <<newVal, i>>
       ELSE /\ newVal' = Staged(t)
            /\ i' = 1
            /\ pc' = "fields"
            /\ UNCHANGED result
    /\ UNCHANGED <<argType, env, mem, pre, t, lvl, fieldLocals, probed, call, prev, diffKey>>

NumField == Len(t.Fields)

isUnexported(f) == f.PkgPath # <<>>

\* Decode, lines 45-49: a field that is not exported is passed over
SkipUnexported ==
    /\ pc = "fields"
    /\ i <= NumField
    /\ isUnexported(t.Fields[i])
    /\ i' = i + 1
    /\ UNCHANGED <<argType, env, mem, pre, pc, t, lvl, newVal, fieldLocals, probed,
                   result, call, prev, diffKey>>

\* Decode, lines 51-55: the locals of one field, and its candidate keys
ResolveTags ==
    /\ pc = "fields"
    /\ i <= NumField
    /\ ~isUnexported(t.Fields[i])
    /\ fieldTags' = getFieldTags(t.Fields[i])
    /\ j' = 1
    /\ s' = <<>>
    /\ tag' = <<>>
    /\ ok' = FALSE
    /\ pc' = "probe"
    /\ UNCHANGED <<argType, env, mem, pre, t, lvl, newVal, i, probed, result, call,
                   prev, diffKey>>

\* ProbeBreaks, were a key that is set to "" passed over like one that is unset
ProbeBreaksOnValue(r) == r.ok /\ Len(r.s) > 0

\* "if s, ok = os.LookupEnv(tag); ok { break }": what ends the probe loop
ProbeBreaks(r) == r.ok

\* Decode, lines 56-60: one turn of the loop over the candidate keys
Probe ==
    /\ pc = "probe"
    /\ j <= Len(fieldTags)
    /\ LET r == LookupEnv(env, fieldTags[j])
       IN  /\ tag' = fieldTags[j]
           /\ s' = r.s
           /\ ok' = r.ok
           /\ probed' = Append(probed, [field |-> i, key |-> fieldTags[j]])
           /\ IF ProbeBreaks(r) \/ j = Len(fieldTags)
              THEN pc' = "value" /\ j' = j
              ELSE pc' = pc /\ j' = j + 1
    /\ UNCHANGED <<argType, env, mem, pre, t, lvl, newVal, i, fieldTags, result, call,
                   prev, diffKey>>

\* NoValue, were the field left alone only when no key was found
NoValueUnlessFound(txt) == ~ok

\* "if len(s) == 0 { continue }"
NoValue(txt) == Len(txt) = 0

\* Decode, lines 61-63: nothing found, or an empty value: the field is left alone
SkipEmpty ==
    /\ pc = "value"
    /\ NoValue(s)
    /\ i' = i + 1
    /\ pc' = "fields"
    /\ UNCHANGED <<argType, env, mem, pre, t, lvl, newVal, fieldLocals, probed, result,
                   call, prev, diffKey>>

\* fVal := newVal.Elem().Field(i)
FieldValue(rec, typ, n) == Value(typ.Fields[n].Type, rec.f[n])

\* Decode, lines 65-69: the value is converted into the field of newVal
DecodeField ==
    /\ pc = "value"
    /\ ~NoValue(s)
    /\ LET r == decodeValue(s, Addr(FieldValue(newVal, t, i)))
       IN  IF r.err # Nil
           THEN /\ Return(Failure(newDecodeError(
                            Description(MsgUnableField, tag), tag, r.err)))
                /\ UNCHANGED <<newVal, i>>
           ELSE /\ newVal' = [newVal EXCEPT !.f[i] = Elem(r.v).val]
                /\ i' = i + 1
                /\ pc' = "fields"
                /\ UNCHANGED result
    /\ UNCHANGED <<argType, env, mem, pre, t, lvl, fieldLocals, probed, call, prev, diffKey>>

\* Decode, lines 72-74: val.Set(newVal.Elem()); return nil
Commit ==
    /\ pc = "fields"
    /\ i > NumField
    /\ term' = newVal
    /\ Return(Success)
    /\ UNCHANGED <<argType, env, alloc, pre, t, lvl, newVal, i, fieldLocals, probed,
                   call, prev, diffKey>>

\* The program sets one unset variable to "" or unsets one variable that is
\* "", and calls Decode again with an argument as it was before the first call.
NextCall ==
    /\ pc = "done"
    /\ call = 1
    /\ \E key \in Keys :
          /\ \/ key \notin DOMAIN env /\ env' = Setenv(env, key, <<>>)
             \/ key \in DOMAIN env /\ env[key] = <<>> /\ env' = Unsetenv(env, key)
          /\ diffKey' = key
    /\ prev' = [env |-> env, result |-> result, alloc |-> alloc, term |-> term]
    /\ call' = 2
    /\ alloc' = pre.alloc
    /\ term' = pre.term
    /\ pc' = "entry"
    /\ t' = argType
    /\ lvl' = 1
    /\ newVal' = None
    /\ i' = 0
    /\ fieldTags' = <<>>
    /\ j' = 0
    /\ s' = <<>>
    /\ tag' = <<>>
    /\ ok' = FALSE
    /\ probed' = <<>>
    /\ result' = Running
    /\ UNCHANGED <<argType, pre>>

Next ==
    \/ DecodeEntry
    \/ Deref
    \/ CheckStruct
    \/ SkipUnexported
    \/ ResolveTags
    \/ Probe
    \/ SkipEmpty
    \/ DecodeField
    \/ Commit
    \/ NextCall

Spec == Init /\ [][Next]_vars

(***************************************************************************)
(* What the claims speak of, stated apart from the code above.             *)
(***************************************************************************)
Visible(f) == f.PkgPath = <<>>

\* where the comma-free runs of txt start, and where the run from a ends
RunStarts(txt) ==
    {a \in 1..Len(txt) : txt[a] # "," /\ (a = 1 \/ txt[a - 1] = ",")}

RunEnd(txt, a) ==
    CHOOSE b \in a..Len(txt) :
        /\ \A m \in a..b : txt[m] # ","
        /\ (b = Len(txt) \/ txt[b + 1] = ",")

\* the non-empty comma-separated entries of txt, in order
Entries(txt) ==
    [n \in 1..Cardinality(RunStarts(txt)) |->
        LET a == CHOOSE a \in RunStarts(txt) :
                    Cardinality({b \in RunStarts(txt) : b < a}) = n - 1
        IN  SubSeq(txt, a, RunEnd(txt, a))]

\* txt up to its first comma
FirstSegment(txt) ==
    IF \E n \in 1..Len(txt) : txt[n] = ","
    THEN SubSeq(txt, 1, (CHOOSE n \in 1..Len(txt) :
                            txt[n] = "," /\ \A m \in 1..(n - 1) : txt[m] # ",") - 1)
    ELSE txt

\* the one source of a field's candidate keys, by priority
CandidateKeys(f) ==
    IF Entries(f.Tag.mpe) # <<>> THEN Entries(f.Tag.mpe)
    ELSE IF FirstSegment(f.Tag.json) # <<>> THEN <<FirstSegment(f.Tag.json)>>
    ELSE <<f.Name>>

\* the index in keys of the first key set in e, 0 when none is
FirstExisting(keys, e) ==
    IF \E n \in 1..Len(keys) : keys[n] \in DOMAIN e
    THEN CHOOSE n \in 1..Len(keys) :
            keys[n] \in DOMAIN e /\ \A m \in 1..(n - 1) : keys[m] \notin DOMAIN e
    ELSE 0

\* the value of the first key of keys set in e, "" when none is
FirstValue(keys, e) ==
    IF FirstExisting(keys, e) = 0 THEN <<>> ELSE e[keys[FirstExisting(keys, e)]]

\* the call has reached the fields of a record, whose type t then is
InRecord == i >= 1

\* the probe loop of field m has run to its end
Probed(m) == InRecord /\ (m < i \/ (m = i /\ pc \in {"value", "done"}))

\* field m has been passed over or converted
Processed(m) == InRecord /\ (m < i \/ (m = i /\ pc = "done"))

\* the keys looked up for field m, in the order of the lookups
ProbesOf(m) ==
    LET ofField(p) == p.field = m
        ps == SelectSeq(probed, ofField)
    IN  [n \in 1..Len(ps) |-> ps[n].key]

\* what txt converts to in a fresh field of type typ
Converted(typ, txt) == Elem(decodeValue(txt, Addr(Value(typ, Zero(typ)))).v).val

Convertible(typ, txt) == decodeValue(txt, Addr(Value(typ, Zero(typ)))).err = Nil

Succeeded == pc = "done" /\ result.outcome = "ok"
Failed == pc = "done" /\ result.outcome = "error"

(***************************************************************************)
(* C1.  Whenever Decode returns an error, the caller's destination equals  *)
(* its value before the call at every level of indirection: no pointer of  *)
(* the chain that was nil has been allocated and no field of the record    *)
(* has changed.                                                            *)
(***************************************************************************)
C1_DestinationUntouchedOnError ==
    Failed => alloc = pre.alloc /\ term = pre.term

(***************************************************************************)
(* C2.  After a successful Decode the record is a zero record in which     *)
(* exactly the visible fields whose first existing candidate key holds a   *)
(* non-empty value carry the converted value, whatever the destination     *)
(* held before; and when no candidate key of any field is set, Decode of a *)
(* pointer that is not nil to a record succeeds and leaves the zero record.*)
(***************************************************************************)
ExpectedRecord(typ, e) ==
    [k |-> "struct",
     f |-> [n \in 1..Len(typ.Fields) |->
              LET f == typ.Fields[n]
                  txt == FirstValue(CandidateKeys(f), e)
              IN  IF Visible(f) /\ txt # <<>>
                  THEN Converted(f.Type, txt)
                  ELSE Zero(f.Type)]]

NoKeySet(typ, e) ==
    \A n \in 1..Len(typ.Fields) :
        Visible(typ.Fields[n]) => FirstExisting(CandidateKeys(typ.Fields[n]), e) = 0

C2_RecordFullyReplaced ==
    /\ Succeeded =>
          /\ alloc = Depth(argType)
          /\ term = ExpectedRecord(Terminal(argType), env)
    /\ ( /\ pc = "done"
         /\ argType.Kind = "Ptr"
         /\ pre.alloc >= 1
         /\ Terminal(argType).Kind = "Struct"
         /\ NoKeySet(Terminal(argType), env) )
       => Succeeded /\ term = Zero(Terminal(argType))

\* a record that held other values everywhere is replaced: one field converted,
\* the others zero
C2_Witness ==
    /\ Succeeded
    /\ pre.alloc = Depth(argType)
    /\ pre.term = Dirty(Terminal(argType))
    /\ \E n \in 1..Len(t.Fields) : term.f[n] # Zero(t.Fields[n].Type)
    /\ \E n \in 1..Len(t.Fields) :
          Visible(t.Fields[n]) /\ term.f[n] = Zero(t.Fields[n].Type)
    /\ \E n \in 1..Len(t.Fields) :
          ~Visible(t.Fields[n]) /\ term.f[n] = Zero(t.Fields[n].Type)

(***************************************************************************)
(* C3.  The candidate keys of a field come from exactly one source: the    *)
(* non-empty entries of the mpe tag, else the first segment of the json    *)
(* tag, else the field's name; no key of another source is looked up.  A   *)
(* field tagged mpe A and json B, with A and B both set, is decoded from A.*)
(***************************************************************************)
C3_OneKeySource ==
    /\ pc \in {"probe", "value"} => fieldTags = CandidateKeys(t.Fields[i])
    /\ \A n \in 1..Len(probed) :
          \E m \in 1..Len(CandidateKeys(t.Fields[probed[n].field])) :
              probed[n].key = CandidateKeys(t.Fields[probed[n].field])[m]
    /\ \A m \in 1..(IF InRecord THEN Len(t.Fields) ELSE 0) :
          ( /\ Probed(m)
            /\ Visible(t.Fields[m])
            /\ t.Fields[m].Tag.mpe = KA
            /\ t.Fields[m].Tag.json = KB
            /\ KA \in DOMAIN env
            /\ KB \in DOMAIN env )
          => /\ ProbesOf(m) = <<KA>>
             /\ m = i => s = env[KA]
             /\ (m < i /\ env[KA] # <<>>) =>
                    newVal.f[m] = Converted(t.Fields[m].Type, env[KA])

\* the field M int16 `mpe:"A" json:"B"` has been decoded from A = "42" with B = "7"
C3_Witness ==
    /\ InRecord
    /\ t = Tagged
    /\ i = 2
    /\ KA \in DOMAIN env /\ env[KA] = <<"4", "2">>
    /\ KB \in DOMAIN env /\ env[KB] = <<"7">>
    /\ newVal.f[1] = [k |-> "int", v |-> 42]
    /\ ProbesOf(1) = <<KA>>

(***************************************************************************)
(* C4.  The candidate keys of a visible field are looked up in list order  *)
(* up to the first that exists in the environment, and no further; the     *)
(* value used is that key's.  If it is the empty string the field is left  *)
(* at its default even when a later key holds a value; if only the second  *)
(* of two keys is set the field is decoded from the second.                *)
(***************************************************************************)
C4_FirstExistingKeyWins ==
    \A m \in 1..(IF InRecord THEN Len(t.Fields) ELSE 0) :
        LET f == t.Fields[m]
            keys == CandidateKeys(f)
            n == FirstExisting(keys, env)
        IN  (Visible(f) /\ Probed(m)) =>
              /\ ProbesOf(m) = SubSeq(keys, 1, IF n = 0 THEN Len(keys) ELSE n)
              /\ m = i => /\ s = FirstValue(keys, env)
                          /\ ok = (n # 0)
                          /\ n # 0 => tag = keys[n]
              /\ (Processed(m) /\ FirstValue(keys, env) = <<>>) =>
                    newVal.f[m] = Zero(f.Type)
              /\ (m < i /\ FirstValue(keys, env) # <<>>) =>
                    newVal.f[m] = Converted(f.Type, FirstValue(keys, env))

\* N int8 `mpe:"A,,B"` with A = "" and B = "7": only A was looked up and N is 0
C4_Witness ==
    /\ Succeeded
    /\ t = Basic
    /\ KA \in DOMAIN env /\ env[KA] = <<>>
    /\ KB \in DOMAIN env /\ env[KB] = <<"7">>
    /\ ProbesOf(1) = <<KA>>
    /\ term.f[1] = [k |-> "int", v |-> 0]
    /\ term.f[3] = [k |-> "string", v |-> <<"7">>]

(***************************************************************************)
(* C5.  As claimed: for two environments that differ only in that one key  *)
(* is set to "" in one and unset in the other, Decode returns the same     *)
(* outcome and leaves the destination in the same final state.             *)
(***************************************************************************)
SameAsFirstCall ==
    /\ result = prev.result
    /\ alloc = prev.alloc
    /\ term = prev.term

C5_EmptyLikeUnset ==
    (pc = "done" /\ call = 2) => SameAsFirstCall

\* of the two environments, the one with diffKey set to "" and the one without it
EnvWithEmpty == IF diffKey \in DOMAIN env THEN env ELSE prev.env
EnvWithout == IF diffKey \in DOMAIN env THEN prev.env ELSE env

\* set to "", diffKey is the first existing candidate key of a visible field of
\* which a later candidate key holds a value
HidesLaterKey ==
    /\ argType.Kind = "Ptr"
    /\ Terminal(argType).Kind = "Struct"
    /\ \E n \in 1..Len(Terminal(argType).Fields) :
          LET f == Terminal(argType).Fields[n]
              keys == CandidateKeys(f)
              m == FirstExisting(keys, EnvWithEmpty)
          IN  /\ Visible(f)
              /\ m # 0
              /\ keys[m] = diffKey
              /\ FirstValue(keys, EnvWithout) # <<>>

(***************************************************************************)
(* C5, amended.  The two calls return the same outcome and leave the same  *)
(* final state unless the key, set to "", is the first existing candidate  *)
(* key of a visible field of which a later candidate key holds a non-empty *)
(* value.                                                                  *)
(***************************************************************************)
C5_EmptyLikeUnsetUnlessHiding ==
    (pc = "done" /\ call = 2 /\ ~HidesLaterKey) => SameAsFirstCall

\* N int8 `mpe:"A,,B"`: A changed between "" and unset, B = "", both calls succeed
C5_Witness ==
    /\ Succeeded
    /\ call = 2
    /\ t = Basic
    /\ diffKey = KA
    /\ KB \in DOMAIN env /\ env[KB] = <<>>
    /\ ~HidesLaterKey
    /\ prev.result = Success

(***************************************************************************)
(* C6.  Shape errors: an argument that is not a pointer yields the error   *)
(* "must decode to pointer", a pointer whose chain ends in a type that is  *)
(* not a struct yields "cannot decode into value of type" naming that      *)
(* type, both with empty field and no cause, no variable of the            *)
(* environment having been read and no field decoded.                      *)
(***************************************************************************)
C6_ShapeErrors ==
    pc = "done" =>
      /\ argType.Kind # "Ptr" =>
            /\ result = Failure(newDecodeError(Description(MsgMustPtr, <<>>), <<>>, Nil))
            /\ probed = <<>>
            /\ newVal = None
      /\ (argType.Kind = "Ptr" /\ Terminal(argType).Kind # "Struct") =>
            /\ result = Failure(newDecodeError(
                            Description(MsgCannotDecode, TypeString(Terminal(argType))),
                            <<>>, Nil))
            /\ probed = <<>>
            /\ newVal = None

(***************************************************************************)
(* C7.  Every call of Decode ends in success or in a returned decode       *)
(* error, whatever the argument: there is no third outcome.                *)
(***************************************************************************)
C7_SuccessOrError ==
    pc = "done" => result.outcome \in {"ok", "error"}

(***************************************************************************)
(* C8.  A visible field that is a pointer to a supported type, nil in the  *)
(* staged record, whose environment value is not empty and converts to the *)
(* pointed-to type, is populated: afterwards it is not nil and points to   *)
(* the parsed value, and Decode does not fail on it.                       *)
(***************************************************************************)
C8_PointerFieldPopulated ==
    \A m \in 1..(IF InRecord THEN Len(t.Fields) ELSE 0) :
        LET f == t.Fields[m]
            txt == FirstValue(CandidateKeys(f), env)
        IN  ( /\ Visible(f)
              /\ f.Type.Kind = "Ptr"
              /\ Processed(m)
              /\ txt # <<>>
              /\ Convertible(f.Type.Elem, txt) )
            => /\ ~(Failed /\ i = m)
               /\ newVal.f[m] = PtrVal(Converted(f.Type.Elem, txt))

(***************************************************************************)
(* C9.  Integer conversion is range-checked to the width of the field: a   *)
(* base-10 value outside the range of a signed or unsigned field of width  *)
(* w makes Decode fail on that field; the field is never set to the value  *)
(* truncated modulo 2^w.                                                   *)
(***************************************************************************)
OutsideWidth(kind, txt) ==
    IF kind \in IntKinds
    THEN \/ ParseInt(txt).err = ErrIntRange
         \/ /\ ParseInt(txt).err = Nil
            /\ Bits(kind) < 64
            /\ \/ ParseInt(txt).n < - Pow2(Bits(kind) - 1)
               \/ ParseInt(txt).n > Pow2(Bits(kind) - 1) - 1
    ELSE \/ ParseUint(txt).err = ErrUintRange
         \/ /\ ParseUint(txt).err = Nil
            /\ Bits(kind) < 64
            /\ ParseUint(txt).n > Pow2(Bits(kind)) - 1

C9_RangeCheckedToWidth ==
    \A m \in 1..(IF InRecord THEN Len(t.Fields) ELSE 0) :
        LET f == t.Fields[m]
            txt == FirstValue(CandidateKeys(f), env)
        IN  ( /\ Visible(f)
              /\ f.Type.Kind \in IntKinds \cup UintKinds
              /\ Processed(m)
              /\ OutsideWidth(f.Type.Kind, txt) )
            => Failed /\ i = m

(***************************************************************************)
(* C10.  When all three attempts of the date/time parsing fail, the error  *)
(* returned is that of the last attempt, the JSON deserializer's.          *)
(***************************************************************************)
AllTimeAttemptsFail(txt) ==
    /\ TimeParse(txt).err # Nil
    /\ ParseFloat(txt).err # Nil
    /\ JSONUnmarshalTime(txt, ZeroTime).err # Nil

C10_LastAttemptError ==
    ( /\ Failed
      /\ InRecord
      /\ t.Fields[i].Type = TimeType
      /\ AllTimeAttemptsFail(s) )
    => result.derr.err = ErrJSON

====
